---- MODULE Spec2Model ----
(***************************************************************************)
(* Tray / window lifecycle controller of the desktop shell                 *)
(* (apps/desktop/src-tauri/src/main.rs).                                   *)
(*                                                                         *)
(* The UI thread runs one handler at a time.  A handler is a script: the   *)
(* sequence of window-runtime calls the Rust function makes, in source     *)
(* order.  `todo` is what is left of the running handler, `done` is what   *)
(* it has performed so far.  quit_app spawns threads that sleep and then   *)
(* exit the process; they are the only concurrency.                        *)
(*                                                                         *)
(* Every window-runtime call is best effort in the source (`let _ = ..`);  *)
(* the model takes the outcome in which the call on an existing window     *)
(* succeeds, and a call on a missing window is the no-op of `if let Some`. *)
(***************************************************************************)
EXTENDS Integers, Sequences, FiniteSets, TLC

\* ------------------------------------------------------------------------
\* Program constants
\* ------------------------------------------------------------------------
MENU_WIDTH == 236
MENU_HEIGHT == 244
MARGIN == 8
FALLBACK_WIDTH == 1920
FALLBACK_HEIGHT == 1080
FALLBACK_X == 0
FALLBACK_Y == 0
QUIT_DELAY_MS == 100

\* ------------------------------------------------------------------------
\* Bounds of the model
\* ------------------------------------------------------------------------
\* Granularity of the passage of time seen by the sleeping quit threads.
TickMs == 50
\* Largest number of consecutive ensure() applications compared in EnsureN.
MaxEnsure == 3

\* ------------------------------------------------------------------------
\* Monitors and geometry (pure part of show_tray_menu)
\* ------------------------------------------------------------------------
Monitor(px, py, w, h) == [x |-> px, y |-> py, w |-> w, h |-> h]

\* Result of app.available_monitors(): Err, or Ok(list in reported order).
QueryErr == [ok |-> FALSE, monitors |-> <<>>]
QueryOk(ms) == [ok |-> TRUE, monitors |-> ms]

\* The containment test with closed upper ends.
Contains_closed(m, x, y) ==
    /\ x >= m.x
    /\ x <= m.x + m.w
    /\ y >= m.y
    /\ y <= m.y + m.h

\* The `if` of lines 85-86: half-open containment of the click position.
Contains(m, x, y) ==
    /\ x >= m.x
    /\ x < m.x + m.w
    /\ y >= m.y
    /\ y < m.y + m.h

\* The initial values of screen_width/height/x/y (lines 70-73).
FallbackScreen == Monitor(FALLBACK_X, FALLBACK_Y, FALLBACK_WIDTH, FALLBACK_HEIGHT)

\* The `for monitor in monitors { ... break; }` loop from index i on.
RECURSIVE ScanMonitors(_, _, _, _)
ScanMonitors(ms, i, x, y) ==
    IF i > Len(ms) THEN FallbackScreen
    ELSE IF Contains(ms[i], x, y) THEN ms[i]
    ELSE ScanMonitors(ms, i + 1, x, y)

\* Lines 70-94: the screen the placement is computed against.
ResolveScreen(q, x, y) ==
    IF q.ok THEN ScanMonitors(q.monitors, 1, x, y) ELSE FallbackScreen

\* The horizontal clamps in the other order: left first, right last.
PlaceX_left_then_right(x, s) ==
    LET c0 == x - (MENU_WIDTH \div 2)
        c1 == IF c0 < s.x + MARGIN THEN s.x + MARGIN ELSE c0
    IN  IF c1 + MENU_WIDTH > s.x + s.w - MARGIN
        THEN s.x + s.w - MENU_WIDTH - MARGIN ELSE c1

\* Lines 97, 100-107: horizontal candidate, right clamp, then left clamp.
PlaceX(x, s) ==
    LET c0 == x - (MENU_WIDTH \div 2)
        c1 == IF c0 + MENU_WIDTH > s.x + s.w - MARGIN
              THEN s.x + s.w - MENU_WIDTH - MARGIN ELSE c0
    IN  IF c1 < s.x + MARGIN THEN s.x + MARGIN ELSE c1

\* The vertical placement clamping to the top margin instead of flipping.
PlaceY_no_flip(y, s) ==
    LET c0 == y - MENU_HEIGHT - MARGIN
        c1 == IF c0 < s.y + MARGIN THEN s.y + MARGIN ELSE c0
    IN  IF c1 + MENU_HEIGHT > s.y + s.h - MARGIN
        THEN s.y + s.h - MENU_HEIGHT - MARGIN ELSE c1

\* Lines 98, 108-115: vertical candidate, flip below, then bottom clamp.
PlaceY(y, s) ==
    LET c0 == y - MENU_HEIGHT - MARGIN
        c1 == IF c0 < s.y + MARGIN THEN y + MARGIN ELSE c0
    IN  IF c1 + MENU_HEIGHT > s.y + s.h - MARGIN
        THEN s.y + s.h - MENU_HEIGHT - MARGIN ELSE c1

\* Lines 96-115: (menu_x, menu_y).
Place(x, y, s) == [x |-> PlaceX(x, s), y |-> PlaceY(y, s)]

\* ------------------------------------------------------------------------
\* State
\* ------------------------------------------------------------------------
VARIABLES
    nPopup,      \* number of windows labelled "tray-menu" in the window table
    popup,       \* the window get_webview_window("tray-menu") returns
    main,        \* the window labelled "main"
    focus,       \* which window holds input focus
    event,       \* the event or command the UI thread is handling / handled last
    todo,        \* calls the running handler has still to make
    done,        \* calls the running handler has made (effects on content included)
    locals,      \* screen_* and menu_x/menu_y of the running show_tray_menu
    consecutiveShows, \* history: show_at calls in a row since the popup was Hidden
    timers,      \* time slept so far by each thread spawned by quit_app
    quitLog,     \* history: steps of the first quit_app call, time since its hide
    exited       \* std::process::exit(0) has been called

vars == <<nPopup, popup, main, focus, event, todo, done, locals,
          consecutiveShows, timers, quitLog, exited>>

NoPopup == [visible |-> FALSE, x |-> 0, y |-> 0, w |-> 0, h |-> 0]

\* The builder without .visible(false).
BuiltPopupVisible == [visible |-> TRUE, x |-> 0, y |-> 0,
                      w |-> MENU_WIDTH, h |-> MENU_HEIGHT]

\* Lines 40-55: the window the builder makes (hidden, 236x244, unfocused).
\* The builder sets no position; (0, 0) stands for the platform default.
BuiltPopup == [visible |-> FALSE, x |-> 0, y |-> 0,
               w |-> MENU_WIDTH, h |-> MENU_HEIGHT]

\* Uninitialized / Hidden / Visible of the popup state machine.
PopupState(n, p) ==
    IF n = 0 THEN "Uninitialized"
    ELSE IF p.visible THEN "Visible" ELSE "Hidden"

NoLocals == [set |-> FALSE, screen |-> FallbackScreen, menu_x |-> 0, menu_y |-> 0]

NoPayload == [x |-> 0, y |-> 0, path |-> "", replace |-> FALSE, enabled |-> FALSE]

Event(kind) ==
    [kind |-> kind, x |-> 0, y |-> 0, query |-> QueryErr, win |-> "",
     flag |-> FALSE, path |-> "", popupBefore |-> PopupState(nPopup, popup)]

Op(op, win, ev) == [op |-> op, win |-> win, ev |-> ev]

Effect(o, payload) == [op |-> o.op, win |-> o.win, ev |-> o.ev, payload |-> payload]

\* ------------------------------------------------------------------------
\* Handlers as scripts (source order of the calls)
\* ------------------------------------------------------------------------
\* Lines 23-30.
show_main_window ==
    << Op("show", "main", ""),
       Op("unminimize", "main", ""),
       Op("set_focus", "main", "") >>

\* hide_tray_menu closing the window instead of hiding it.
hide_tray_menu_closes == << Op("default_close", "tray-menu", "") >>

\* Lines 134-138.
hide_tray_menu == << Op("hide", "tray-menu", "") >>

\* show_tray_menu resizing and repositioning before the visibility test.
show_tray_menu_reposition_first ==
    << Op("ensure_tray_menu_window", "tray-menu", ""),
       Op("compute_position", "", ""),
       Op("set_size", "tray-menu", ""),
       Op("set_position", "tray-menu", ""),
       Op("is_visible", "tray-menu", ""),
       Op("show", "tray-menu", ""),
       Op("set_focus", "tray-menu", ""),
       Op("emit", "tray-menu", "tray-menu-position") >>

\* show_tray_menu without the early return of lines 120-123.
show_tray_menu_no_toggle ==
    << Op("ensure_tray_menu_window", "tray-menu", ""),
       Op("compute_position", "", ""),
       Op("set_size", "tray-menu", ""),
       Op("set_position", "tray-menu", ""),
       Op("show", "tray-menu", ""),
       Op("set_focus", "tray-menu", ""),
       Op("emit", "tray-menu", "tray-menu-position") >>

\* Lines 59-131.  "is_visible" is the toggle branch of lines 118-123: it
\* ends the handler when there is no window, hides and ends it when the
\* window is visible, and otherwise falls through to lines 125-129.
show_tray_menu ==
    << Op("ensure_tray_menu_window", "tray-menu", ""),
       Op("compute_position", "", ""),
       Op("is_visible", "tray-menu", ""),
       Op("set_size", "tray-menu", ""),
       Op("set_position", "tray-menu", ""),
       Op("show", "tray-menu", ""),
       Op("set_focus", "tray-menu", ""),
       Op("emit", "tray-menu", "tray-menu-position") >>

\* close_tray_menu toggling the popup instead of hiding it.
close_tray_menu_toggles ==
    << Op("is_visible", "tray-menu", ""),
       Op("show", "tray-menu", "") >>

\* Lines 142-144.
close_tray_menu == hide_tray_menu

\* Lines 148-150.
show_main_window_cmd == show_main_window

\* navigate_main emitting before it reveals the main window.
navigate_main_emit_first == << Op("emit", "main", "efgh:navigate") >> \o show_main_window

\* Lines 154-161.
navigate_main == show_main_window \o << Op("emit", "main", "efgh:navigate") >>

\* quit_app that never spawns the exit thread.
quit_app_no_spawn ==
    << Op("emit", "main", "tray-quit") >> \o hide_tray_menu

\* Lines 165-177.
quit_app ==
    << Op("emit", "main", "tray-quit") >>
    \o hide_tray_menu
    \o << Op("spawn", "", "") >>

\* Lines 181-185.
toggle_sync == << Op("emit", "main", "tray-toggle-sync") >>

\* Lines 189-196.
set_auto_sync == << Op("emit", "main", "tray-set-auto-sync") >>

\* The left-click handler with its two calls swapped.
on_tray_left_up_main_first == show_main_window \o hide_tray_menu

\* Lines 304-311: left button released.
on_tray_left_up == hide_tray_menu \o show_main_window

\* Lines 312-323: right button released.
on_tray_right_up == show_tray_menu

\* Lines 329-331: pre-warm at the end of setup.
setup == << Op("ensure_tray_menu_window", "tray-menu", "") >>

\* The close handler without api.prevent_close().
on_close_requested_unprevented(label) ==
    (IF label = "main"
     THEN << Op("emit", label, "window-close-requested") >>
     ELSE << >>)
    \o << Op("default_close", label, "") >>

\* Lines 337-345, followed by the runtime's default action for the request
\* (the window is closed unless the handler called prevent_close).
on_close_requested(label) ==
    (IF label = "main"
     THEN << Op("prevent_close", label, ""),
             Op("emit", label, "window-close-requested") >>
     ELSE << >>)
    \o << Op("default_close", label, "") >>

\* The focus handler without the test of the window label.
on_focused_any_label(label, focused) ==
    IF ~focused
    THEN << Op("hide", "tray-menu", "") >>
    ELSE << >>

\* The focus handler closing the popup instead of hiding it.
on_focused_closes(label, focused) ==
    IF ~focused /\ label = "tray-menu"
    THEN << Op("default_close", label, "") >>
    ELSE << >>

\* Lines 346-351.
on_focused(label, focused) ==
    IF ~focused /\ label = "tray-menu"
    THEN << Op("hide", label, "") >>
    ELSE << >>

\* ------------------------------------------------------------------------
\* Effects of the single calls
\* ------------------------------------------------------------------------
Exists(win) ==
    IF win = "main" THEN main.exists
    ELSE IF win = "tray-menu" THEN nPopup > 0
    ELSE FALSE

\* ensure without the early return of lines 34-36.
ensure_always_builds(t) == [n |-> t.n + 1, popup |-> BuiltPopup]

\* ensure whose existence test lets a second window through.
ensure_off_by_one(t) ==
    IF t.n > 1 THEN t
    ELSE [n |-> t.n + 1, popup |-> BuiltPopup]

\* Lines 33-56 on the window table: [n, popup] -> [n, popup].
ensure_tray_menu_window(t) ==
    IF t.n > 0 THEN t
    ELSE [n |-> t.n + 1, popup |-> BuiltPopup]

\* The position payload carrying the clamped top-left instead of the click.
EmitPayloadClamped(ev, e) ==
    IF ev = "tray-menu-position"
    THEN LET m == Place(e.x, e.y, ResolveScreen(e.query, e.x, e.y))
         IN  [NoPayload EXCEPT !.x = m.x, !.y = m.y]
    ELSE IF ev = "efgh:navigate"
    THEN [NoPayload EXCEPT !.path = e.path, !.replace = TRUE]
    ELSE IF ev = "tray-set-auto-sync"
    THEN [NoPayload EXCEPT !.enabled = e.flag]
    ELSE NoPayload

\* Payload of an emit, from the arguments of the running handler.
EmitPayload(ev, e) ==
    IF ev = "tray-menu-position"
    THEN [NoPayload EXCEPT !.x = e.x, !.y = e.y]
    ELSE IF ev = "efgh:navigate"
    THEN [NoPayload EXCEPT !.path = e.path, !.replace = TRUE]
    ELSE IF ev = "tray-set-auto-sync"
    THEN [NoPayload EXCEPT !.enabled = e.flag]
    ELSE NoPayload

\* First quit_app call only: the choreography steps in the order made.
QuitLogged(step) ==
    IF event.kind = "quit_app" /\ "spawn" \notin {quitLog.steps[i] : i \in DOMAIN quitLog.steps}
    THEN [quitLog EXCEPT !.steps = Append(@, step),
                         !.since = IF step = "hide" THEN 0 ELSE @]
    ELSE quitLog

Running == ~exited /\ todo /= << >>
Idle == ~exited /\ todo = << >>
Cur == Head(todo)

\* A call that leaves the windows alone.
WindowsUnchanged == UNCHANGED <<nPopup, popup, main, focus>>

\* The handler goes on to its next call, having performed effect e.
Advance(e) ==
    /\ todo' = Tail(todo)
    /\ done' = Append(done, e)

\* The handler goes on to its next call; this one had no window to act on.
Skip ==
    /\ todo' = Tail(todo)
    /\ done' = done

\* window.show() / window.hide() on an existing window.
SetVisible(win, v) ==
    /\ IF win = "main"
       THEN main' = [main EXCEPT !.visible = v] /\ popup' = popup
       ELSE popup' = [popup EXCEPT !.visible = v] /\ main' = main
    /\ focus' = IF ~v /\ focus = win THEN "other" ELSE focus
    /\ nPopup' = nPopup

\* ------------------------------------------------------------------------
\* Steps of the UI thread: one action per kind of call
\* ------------------------------------------------------------------------
\* ensure_tray_menu_window(app), lines 33-56.
DoEnsure ==
    /\ Running
    /\ Cur.op = "ensure_tray_menu_window"
    /\ LET t == ensure_tray_menu_window([n |-> nPopup, popup |-> popup])
       IN  /\ nPopup' = t.n
           /\ popup' = t.popup
           /\ IF t.n > nPopup
              THEN Advance(Effect(Op("build", "tray-menu", ""), NoPayload))
              ELSE Skip
    /\ UNCHANGED <<main, focus, event, locals, consecutiveShows,
                   timers, quitLog, exited>>

\* Lines 70-115: resolve the screen and compute menu_x, menu_y.
DoComputePosition ==
    /\ Running
    /\ Cur.op = "compute_position"
    /\ LET s == ResolveScreen(event.query, event.x, event.y)
           m == Place(event.x, event.y, s)
       IN  locals' = [set |-> TRUE, screen |-> s, menu_x |-> m.x, menu_y |-> m.y]
    /\ Skip
    /\ WindowsUnchanged
    /\ UNCHANGED <<event, consecutiveShows, timers, quitLog, exited>>

\* Lines 118-123: no window -> return; visible -> hide and return.
DoIsVisible ==
    /\ Running
    /\ Cur.op = "is_visible"
    /\ IF ~Exists(Cur.win)
       THEN /\ todo' = << >>
            /\ done' = done
            /\ WindowsUnchanged
       ELSE IF popup.visible
       THEN /\ todo' = << >>
            /\ done' = Append(done, Effect(Op("hide", Cur.win, ""), NoPayload))
            /\ SetVisible(Cur.win, FALSE)
       ELSE /\ Skip
            /\ WindowsUnchanged
    /\ UNCHANGED <<event, locals, consecutiveShows, timers, quitLog, exited>>

\* Line 125: window.set_size(LogicalSize::new(MENU_WIDTH, MENU_HEIGHT)).
DoSetSize ==
    /\ Running
    /\ Cur.op = "set_size"
    /\ IF Exists(Cur.win)
       THEN /\ popup' = [popup EXCEPT !.w = MENU_WIDTH, !.h = MENU_HEIGHT]
            /\ Advance(Effect(Cur, NoPayload))
       ELSE /\ popup' = popup
            /\ Skip
    /\ UNCHANGED <<nPopup, main, focus, event, locals, consecutiveShows,
                   timers, quitLog, exited>>

\* Line 126: window.set_position(LogicalPosition::new(menu_x, menu_y)).
DoSetPosition ==
    /\ Running
    /\ Cur.op = "set_position"
    /\ IF Exists(Cur.win)
       THEN /\ popup' = [popup EXCEPT !.x = locals.menu_x, !.y = locals.menu_y]
            /\ Advance(Effect(Cur, [NoPayload EXCEPT !.x = locals.menu_x,
                                                     !.y = locals.menu_y]))
       ELSE /\ popup' = popup
            /\ Skip
    /\ UNCHANGED <<nPopup, main, focus, event, locals, consecutiveShows,
                   timers, quitLog, exited>>

\* window.show(): lines 26 and 127.
DoShow ==
    /\ Running
    /\ Cur.op = "show"
    /\ IF Exists(Cur.win)
       THEN SetVisible(Cur.win, TRUE) /\ Advance(Effect(Cur, NoPayload))
       ELSE WindowsUnchanged /\ Skip
    /\ UNCHANGED <<event, locals, consecutiveShows, timers, quitLog, exited>>

\* window.hide(): lines 136 and 349.
DoHide ==
    /\ Running
    /\ Cur.op = "hide"
    /\ IF Exists(Cur.win)
       THEN SetVisible(Cur.win, FALSE) /\ Advance(Effect(Cur, NoPayload))
       ELSE WindowsUnchanged /\ Skip
    /\ quitLog' = QuitLogged("hide")
    /\ UNCHANGED <<event, locals, consecutiveShows, timers, exited>>

\* window.unminimize(): line 27.
DoUnminimize ==
    /\ Running
    /\ Cur.op = "unminimize"
    /\ IF Exists(Cur.win)
       THEN main' = [main EXCEPT !.minimized = FALSE] /\ Advance(Effect(Cur, NoPayload))
       ELSE main' = main /\ Skip
    /\ UNCHANGED <<nPopup, popup, focus, event, locals, consecutiveShows,
                   timers, quitLog, exited>>

\* window.set_focus(): lines 28 and 128.
DoSetFocus ==
    /\ Running
    /\ Cur.op = "set_focus"
    /\ IF Exists(Cur.win)
       THEN focus' = Cur.win /\ Advance(Effect(Cur, NoPayload))
       ELSE focus' = focus /\ Skip
    /\ UNCHANGED <<nPopup, popup, main, event, locals, consecutiveShows,
                   timers, quitLog, exited>>

\* window.emit(name, payload): lines 129, 159, 168, 183, 191, 342.
DoEmit ==
    /\ Running
    /\ Cur.op = "emit"
    /\ IF Exists(Cur.win)
       THEN /\ Advance(Effect(Cur, EmitPayload(Cur.ev, event)))
            /\ quitLog' = IF Cur.ev = "tray-quit" THEN QuitLogged("notify") ELSE quitLog
       ELSE /\ Skip
            /\ quitLog' = quitLog
    /\ WindowsUnchanged
    /\ UNCHANGED <<event, locals, consecutiveShows, timers, exited>>

\* api.prevent_close(): line 341.
DoPreventClose ==
    /\ Running
    /\ Cur.op = "prevent_close"
    /\ Advance(Effect(Cur, NoPayload))
    /\ WindowsUnchanged
    /\ UNCHANGED <<event, locals, consecutiveShows, timers, quitLog, exited>>

Prevented == \E i \in DOMAIN done : done[i].op = "prevent_close"

\* After the handler returns: the window closes unless prevent_close was
\* called (the popup's request is let through, line 344).
DoDefaultClose ==
    /\ Running
    /\ Cur.op = "default_close"
    /\ IF Exists(Cur.win) /\ ~Prevented
       THEN /\ IF Cur.win = "main"
               THEN /\ main' = [exists |-> FALSE, visible |-> FALSE, minimized |-> FALSE]
                    /\ UNCHANGED <<nPopup, popup>>
               ELSE /\ nPopup' = nPopup - 1
                    /\ popup' = IF nPopup = 1 THEN NoPopup ELSE popup
                    /\ main' = main
            /\ focus' = IF focus = Cur.win THEN "other" ELSE focus
            /\ Advance(Effect(Op("destroy", Cur.win, ""), NoPayload))
       ELSE WindowsUnchanged /\ Skip
    /\ UNCHANGED <<event, locals, consecutiveShows, timers, quitLog, exited>>

\* Line 173: std::thread::spawn of the delayed exit.
DoSpawn ==
    /\ Running
    /\ Cur.op = "spawn"
    /\ timers' = timers \cup {0}
    /\ quitLog' = QuitLogged("spawn")
    /\ Advance(Effect(Cur, NoPayload))
    /\ WindowsUnchanged
    /\ UNCHANGED <<event, locals, consecutiveShows, exited>>

UIStep ==
    \/ DoEnsure \/ DoComputePosition \/ DoIsVisible \/ DoSetSize
    \/ DoSetPosition \/ DoShow \/ DoHide \/ DoUnminimize \/ DoSetFocus
    \/ DoEmit \/ DoPreventClose \/ DoDefaultClose \/ DoSpawn

\* ------------------------------------------------------------------------
\* Inputs
\* ------------------------------------------------------------------------
Primary == Monitor(0, 0, 1920, 1080)
LeftOfPrimary == Monitor(-800, 0, 800, 600)
Smallest == Monitor(0, 0, MENU_WIDTH + 2 * MARGIN, MENU_HEIGHT + 2 * MARGIN)
Tiny == Monitor(0, 0, 200, 200)

\* Tray click positions and monitor reports used by the event loop.
TrayPoints == { <<1900, 10>>, <<960, 1070>>, <<-100, -50>> }
TrayQueries == { QueryErr, QueryOk(<<LeftOfPrimary, Primary>>) }

\* Inputs of the placement alone: values on both sides of every comparison.
PlaceXs == { -900, -801, -800, -683, -682, -100, -1, 0, 1, 117, 118, 119,
             125, 126, 127, 243, 244, 251, 252, 960, 1793, 1794, 1795,
             1900, 1919, 1920, 2000 }
PlaceYs == { -300, -50, -9, -8, -1, 0, 1, 10, 15, 16, 199, 200, 259, 260,
             261, 599, 600, 835, 836, 837, 1070, 1079, 1080, 1200 }
PlaceQueries ==
    { QueryErr,
      QueryOk(<< >>),
      QueryOk(<<Primary>>),
      QueryOk(<<LeftOfPrimary, Primary>>),
      QueryOk(<<Smallest, Primary>>),
      QueryOk(<<Tiny, Primary>>) }

Paths == { "/settings", "/" }

\* ------------------------------------------------------------------------
\* Events and commands: the UI thread takes the next one when it is idle
\* ------------------------------------------------------------------------
Dispatch(e, script, shows) ==
    /\ Idle
    /\ event' = e
    /\ todo' = script
    /\ done' = << >>
    /\ locals' = NoLocals
    /\ consecutiveShows' = shows
    /\ UNCHANGED <<timers, quitLog, exited>>

\* Lines 304-311.
TrayLeftUp ==
    /\ Dispatch(Event("tray-left-up"), on_tray_left_up, 0)
    /\ WindowsUnchanged

\* Lines 312-323; the monitors are queried anew on every call (line 75).
TrayRightUp ==
    \E p \in TrayPoints, q \in TrayQueries :
        /\ Dispatch([Event("tray-right-up") EXCEPT !.x = p[1], !.y = p[2], !.query = q],
                    on_tray_right_up,
                    IF consecutiveShows = 1 THEN 2
                    ELSE IF PopupState(nPopup, popup) = "Hidden" THEN 1 ELSE 0)
        /\ WindowsUnchanged

\* The catch-all arm treating the event as a left-button release.
TrayOtherAsLeftUp ==
    /\ Dispatch(Event("tray-other"), on_tray_left_up, 0)
    /\ WindowsUnchanged

\* Line 324: every other tray event (press, middle, double click, enter, ...).
TrayOther ==
    /\ Dispatch(Event("tray-other"), << >>, 0)
    /\ WindowsUnchanged

InvokeCloseTrayMenu ==
    /\ Dispatch(Event("close_tray_menu"), close_tray_menu, 0)
    /\ WindowsUnchanged

InvokeShowMainWindow ==
    /\ Dispatch(Event("show_main_window_cmd"), show_main_window_cmd, 0)
    /\ WindowsUnchanged

InvokeNavigateMain ==
    \E path \in Paths :
        /\ Dispatch([Event("navigate_main") EXCEPT !.path = path], navigate_main, 0)
        /\ WindowsUnchanged

InvokeQuitApp ==
    /\ Dispatch(Event("quit_app"), quit_app, 0)
    /\ WindowsUnchanged

InvokeToggleSync ==
    /\ Dispatch(Event("toggle_sync"), toggle_sync, 0)
    /\ WindowsUnchanged

InvokeSetAutoSync ==
    \E enabled \in BOOLEAN :
        /\ Dispatch([Event("set_auto_sync") EXCEPT !.flag = enabled], set_auto_sync, 0)
        /\ WindowsUnchanged

\* Lines 337-345: a close request delivered to window `label`.
CloseRequested(label) ==
    /\ Exists(label)
    /\ Dispatch([Event("close-requested") EXCEPT !.win = label],
                on_close_requested(label), 0)
    /\ WindowsUnchanged

\* Lines 346-351: the window gained or lost focus, then the handler runs.
Focused(label, focused) ==
    /\ Exists(label)
    /\ focused => IF label = "main" THEN main.visible ELSE popup.visible
    /\ Dispatch([Event("focused") EXCEPT !.win = label, !.flag = focused],
                on_focused(label, focused), 0)
    /\ focus' = IF focused THEN label
                ELSE IF focus = label THEN "other" ELSE focus
    /\ UNCHANGED <<nPopup, popup, main>>

\* Line 352: any other window event.
WindowOther ==
    /\ Dispatch(Event("window-other"), << >>, 0)
    /\ WindowsUnchanged

\* The content or the user hides or minimizes the main window (what
\* show_main_window undoes).
MainHidden ==
    /\ main.exists /\ main.visible
    /\ Dispatch(Event("main-hidden"), << >>, 0)
    /\ main' = [main EXCEPT !.visible = FALSE]
    /\ focus' = IF focus = "main" THEN "other" ELSE focus
    /\ UNCHANGED <<nPopup, popup>>

MainMinimized ==
    /\ main.exists /\ ~main.minimized
    /\ Dispatch(Event("main-minimized"), << >>, 0)
    /\ main' = [main EXCEPT !.minimized = TRUE]
    /\ focus' = IF focus = "main" THEN "other" ELSE focus
    /\ UNCHANGED <<nPopup, popup>>

\* ------------------------------------------------------------------------
\* The threads spawned by quit_app (lines 173-176)
\* ------------------------------------------------------------------------
Min(a, b) == IF a < b THEN a ELSE b

\* The thread exiting without having slept.
SleepOverAtOnce(t) == t >= 0

\* std::thread::sleep(Duration::from_millis(100)) has returned.
SleepOver(t) == t >= QUIT_DELAY_MS

Tick ==
    /\ ~exited
    /\ \/ \E t \in timers : t < QUIT_DELAY_MS
       \/ quitLog.since >= 0 /\ quitLog.since < QUIT_DELAY_MS
    /\ timers' = { Min(t + TickMs, QUIT_DELAY_MS) : t \in timers }
    /\ quitLog' = IF quitLog.since >= 0
                  THEN [quitLog EXCEPT !.since = Min(@ + TickMs, QUIT_DELAY_MS)]
                  ELSE quitLog
    /\ UNCHANGED <<nPopup, popup, main, focus, event, todo, done, locals,
                   consecutiveShows, exited>>

\* std::process::exit(0), line 175.
ThreadExit ==
    /\ ~exited
    /\ \E t \in timers : SleepOver(t)
    /\ exited' = TRUE
    /\ UNCHANGED <<nPopup, popup, main, focus, event, todo, done, locals,
                   consecutiveShows, timers, quitLog>>

\* ------------------------------------------------------------------------
\* Specifications
\* ------------------------------------------------------------------------
\* Entry of the setup closure: the configured main window is there, the
\* popup is not yet built, the pre-warm is still to run.
InitWith(mainExists) ==
    /\ nPopup = 0
    /\ popup = NoPopup
    /\ main = [exists |-> mainExists, visible |-> mainExists, minimized |-> FALSE]
    /\ focus = IF mainExists THEN "main" ELSE "other"
    /\ event = [kind |-> "setup", x |-> 0, y |-> 0, query |-> QueryErr, win |-> "",
                flag |-> FALSE, path |-> "", popupBefore |-> "Uninitialized"]
    /\ todo = setup
    /\ done = << >>
    /\ locals = NoLocals
    /\ consecutiveShows = 0
    /\ timers = {}
    /\ quitLog = [steps |-> << >>, since |-> -1]
    /\ exited = FALSE

Init == InitWith(TRUE)

Next ==
    \/ UIStep
    \/ TrayLeftUp
    \/ TrayRightUp
    \/ TrayOther
    \/ InvokeCloseTrayMenu
    \/ InvokeShowMainWindow
    \/ InvokeNavigateMain
    \/ InvokeQuitApp
    \/ InvokeToggleSync
    \/ InvokeSetAutoSync
    \/ \E label \in {"main", "tray-menu"} : CloseRequested(label)
    \/ \E label \in {"main", "tray-menu"}, focused \in BOOLEAN : Focused(label, focused)
    \/ WindowOther
    \/ MainHidden
    \/ MainMinimized
    \/ Tick
    \/ ThreadExit

Spec == Init /\ [][Next]_vars

\* The quit choreography with its scheduling: a started handler runs to its
\* end, time passes, and a thread whose sleep is over runs.  The main window
\* may or may not be there.
InitLive == \E mainExists \in BOOLEAN : InitWith(mainExists)

SpecLive ==
    /\ InitLive
    /\ [][Next]_vars
    /\ WF_vars(UIStep)
    /\ WF_vars(Tick)
    /\ WF_vars(ThreadExit)

\* show_tray_menu alone, on every input of PlaceXs x PlaceYs x PlaceQueries,
\* called with the popup pre-warmed and hidden.
InitPlace ==
    /\ nPopup = 1
    /\ popup = BuiltPopup
    /\ main = [exists |-> TRUE, visible |-> TRUE, minimized |-> FALSE]
    /\ focus = "main"
    /\ \E x \in PlaceXs, y \in PlaceYs, q \in PlaceQueries :
          event = [kind |-> "tray-right-up", x |-> x, y |-> y, query |-> q, win |-> "",
                   flag |-> FALSE, path |-> "", popupBefore |-> "Hidden"]
    /\ todo = on_tray_right_up
    /\ done = << >>
    /\ locals = NoLocals
    /\ consecutiveShows = 1
    /\ timers = {}
    /\ quitLog = [steps |-> << >>, since |-> -1]
    /\ exited = FALSE

NextPlace ==
    \/ DoEnsure \/ DoComputePosition \/ DoIsVisible \/ DoSetSize
    \/ DoSetPosition \/ DoShow \/ DoSetFocus \/ DoEmit

SpecPlace == InitPlace /\ [][NextPlace]_vars

\* ------------------------------------------------------------------------
\* Properties
\* ------------------------------------------------------------------------
IsEmit(e, win, ev) == e.op = "emit" /\ e.win = win /\ e.ev = ev
IsCall(e, op, win) == e.op = op /\ e.win = win
Emits(win, ev) == { i \in DOMAIN done : IsEmit(done[i], win, ev) }
Calls(op, win) == { i \in DOMAIN done : IsCall(done[i], op, win) }
Finished(kind) == event.kind = kind /\ todo = << >>

\* C1: whenever the resolved screen is at least 236 + 2*8 wide and
\* 244 + 2*8 high, the 236x244 rectangle at the computed (menu_x, menu_y)
\* lies inside that screen, for every trigger point (also one outside it).
C1_PlacementContained ==
    (/\ locals.set
     /\ locals.screen.w >= MENU_WIDTH + 2 * MARGIN
     /\ locals.screen.h >= MENU_HEIGHT + 2 * MARGIN)
    => /\ locals.menu_x >= locals.screen.x
       /\ locals.menu_x + MENU_WIDTH <= locals.screen.x + locals.screen.w
       /\ locals.menu_y >= locals.screen.y
       /\ locals.menu_y + MENU_HEIGHT <= locals.screen.y + locals.screen.h

\* C2 as stated: once the popup window exists, it exists after every step.
C2_PopupNeverDestroyed == [][nPopup > 0 => nPopup' > 0]_vars

\* C2, amended: a popup window that exists goes on existing (Hidden or
\* Visible) after every step, except the step that carries out a close
\* request delivered to the popup window itself.
C2_PopupDestroyedOnlyByOwnClose ==
    [][(nPopup > 0 /\ ~(event.kind = "close-requested" /\ event.win = "tray-menu"))
       => (nPopup' > 0 /\ PopupState(nPopup', popup') \in {"Hidden", "Visible"})]_vars

C2_Witness ==
    /\ Finished("focused")
    /\ event.win = "tray-menu"
    /\ ~event.flag
    /\ event.popupBefore = "Visible"
    /\ PopupState(nPopup, popup) = "Hidden"

\* C3: a close request delivered to the main window never destroys it, and
\* its handler emits window-close-requested to the main window exactly once.
C3_MainCloseIntercepted ==
    /\ main.exists
    /\ (event.kind = "close-requested" /\ event.win = "main")
       => /\ Calls("destroy", "main") = {}
          /\ Cardinality(Emits("main", "window-close-requested")) <= 1
          /\ todo = << >> => Cardinality(Emits("main", "window-close-requested")) = 1

C3_Witness ==
    /\ Finished("close-requested")
    /\ event.win = "main"
    /\ main.exists
    /\ Cardinality(Emits("main", "window-close-requested")) = 1

\* C4: of two show_at calls in a row that start with the popup Hidden, the
\* first leaves it Visible and the second leaves it Hidden.
C4_Toggle ==
    Finished("tray-right-up")
    => /\ consecutiveShows = 1 => PopupState(nPopup, popup) = "Visible"
       /\ consecutiveShows = 2 => PopupState(nPopup, popup) = "Hidden"

C4_Witness ==
    /\ Finished("tray-right-up")
    /\ consecutiveShows = 2
    /\ PopupState(nPopup, popup) = "Hidden"

\* C5: the process has exited only if the first quit_app call emitted
\* tray-quit, then hid the popup, then spawned the exit thread, and at
\* least the (non-zero) delay has passed since the hide.
C5_ExitAfterChoreography ==
    /\ QUIT_DELAY_MS > 0
    /\ exited => /\ quitLog.steps = << "notify", "hide", "spawn" >>
                 /\ quitLog.since >= QUIT_DELAY_MS

C5_Witness ==
    /\ exited
    /\ quitLog.steps = << "notify", "hide", "spawn" >>

\* C6: once quit_app has been invoked the process eventually exits,
\* whatever else is handled meanwhile and whether or not a main window exists.
C6_QuitLeadsToExit == (event.kind = "quit_app") ~> exited

C6_Witness ==
    /\ exited
    /\ ~main.exists
    /\ event.kind /= "quit_app"

\* C7: while a left-button release is handled the main window is shown or
\* focused only with the popup not visible, and when the handler is done the
\* popup is not visible and the main window is visible, unminimized, focused.
C7_LeftClickOrder ==
    event.kind = "tray-left-up"
    => /\ (Calls("show", "main") /= {} \/ Calls("set_focus", "main") /= {})
          => ~popup.visible
       /\ todo = << >>
          => /\ ~popup.visible
             /\ main.visible
             /\ ~main.minimized
             /\ focus = "main"

C7_Witness ==
    /\ Finished("tray-left-up")
    /\ event.popupBefore = "Visible"
    /\ focus = "main"

\* C8: show_at(x, y) called with the popup Hidden makes exactly these calls:
\* set_size 236x244, set_position to the placement result, show, set_focus,
\* one emit of tray-menu-position carrying the raw (x, y); afterwards the
\* popup is Visible, focused, 236x244, at the placement result.
C8_ShowWhenHidden ==
    (Finished("tray-right-up") /\ event.popupBefore = "Hidden")
    => LET m == Place(event.x, event.y, ResolveScreen(event.query, event.x, event.y))
       IN  /\ popup = [visible |-> TRUE, x |-> m.x, y |-> m.y,
                       w |-> MENU_WIDTH, h |-> MENU_HEIGHT]
           /\ focus = "tray-menu"
           /\ Len(done) = 5
           /\ IsCall(done[1], "set_size", "tray-menu")
           /\ IsCall(done[2], "set_position", "tray-menu")
           /\ done[2].payload.x = m.x /\ done[2].payload.y = m.y
           /\ IsCall(done[3], "show", "tray-menu")
           /\ IsCall(done[4], "set_focus", "tray-menu")
           /\ IsEmit(done[5], "tray-menu", "tray-menu-position")
           /\ done[5].payload = [NoPayload EXCEPT !.x = event.x, !.y = event.y]

C8_Witness ==
    /\ Finished("tray-right-up")
    /\ event.popupBefore = "Hidden"
    /\ popup.visible
    /\ popup.x /= event.x

\* C9: in every reachable state of the window table, 1..MaxEnsure ensure()
\* calls in a row give what one call gives, with at most one popup handle;
\* an existing handle is left as it is and a new one is Hidden.  No handler
\* builds more than one popup window.
RECURSIVE EnsureN(_, _)
EnsureN(t, k) == IF k = 0 THEN t ELSE ensure_tray_menu_window(EnsureN(t, k - 1))

C9_EnsureIdempotent ==
    LET t == [n |-> nPopup, popup |-> popup]
        one == ensure_tray_menu_window(t)
    IN  /\ \A k \in 1..MaxEnsure : EnsureN(t, k) = one
        /\ one.n = 1
        /\ t.n > 0 => one = t
        /\ t.n = 0 => PopupState(one.n, one.popup) = "Hidden"
        /\ Cardinality(Calls("build", "tray-menu")) <= 1

C9_Witness ==
    /\ Finished("tray-right-up")
    /\ event.popupBefore = "Uninitialized"
    /\ Cardinality(Calls("build", "tray-menu")) = 1
    /\ nPopup = 1

\* C10: there is never more than one popup window.
C10_AtMostOnePopup == nPopup <= 1

C10_Witness ==
    /\ nPopup = 1
    /\ Finished("tray-right-up")
    /\ event.popupBefore = "Visible"

\* C11: hide() leaves a Hidden popup Hidden and a Visible one Hidden, does
\* nothing without a popup window, and emits nothing; a hide call made on a
\* popup that is not visible changes no window state at all (so hide; hide
\* is hide).
C11_HideIdempotent ==
    /\ [](Finished("close_tray_menu")
          => /\ event.popupBefore = "Uninitialized"
                => (nPopup = 0 /\ done = << >>)
             /\ event.popupBefore \in {"Hidden", "Visible"}
                => PopupState(nPopup, popup) = "Hidden"
             /\ \A i \in DOMAIN done : IsCall(done[i], "hide", "tray-menu"))
    /\ [][(/\ todo /= << >>
           /\ todo' /= todo
           /\ Cur.op = "hide"
           /\ Cur.win = "tray-menu"
           /\ ~popup.visible)
          => /\ UNCHANGED <<nPopup, popup, main, focus>>
             /\ \A i \in (DOMAIN done') \ (DOMAIN done) : done'[i].op /= "emit"]_vars

C11_Witness ==
    /\ Finished("close_tray_menu")
    /\ event.popupBefore = "Hidden"
    /\ PopupState(nPopup, popup) = "Hidden"
    /\ Len(done) = 1

\* C12 as stated: each of ensure, show_at and hide, made twice in a row,
\* leaves what one call leaves: a second ensure changes nothing, a hide on
\* a popup that is not visible leaves its state, and the second of two
\* show_at calls in a row from Hidden leaves the popup Visible as the first did.
C12_EveryOperationIdempotent ==
    /\ LET t == [n |-> nPopup, popup |-> popup]
       IN  EnsureN(t, 2) = EnsureN(t, 1)
    /\ (Finished("close_tray_menu") /\ event.popupBefore /= "Visible")
       => PopupState(nPopup, popup) = event.popupBefore
    /\ (Finished("tray-right-up") /\ consecutiveShows = 2)
       => PopupState(nPopup, popup) = "Visible"

\* C12, amended: ensure and hide are idempotent; show_at is a toggle, not
\* idempotent: every show_at call ends with the popup Hidden when it found
\* it Visible and Visible otherwise, so the second of two calls in a row
\* undoes the first.
C12_EnsureHideIdempotentShowToggles ==
    /\ LET t == [n |-> nPopup, popup |-> popup]
       IN  EnsureN(t, 2) = EnsureN(t, 1)
    /\ (Finished("close_tray_menu") /\ event.popupBefore /= "Visible")
       => PopupState(nPopup, popup) = event.popupBefore
    /\ Finished("tray-right-up")
       => /\ PopupState(nPopup, popup) =
               (IF event.popupBefore = "Visible" THEN "Hidden" ELSE "Visible")
          /\ consecutiveShows = 2 => event.popupBefore = "Visible"

C12_Witness ==
    /\ Finished("tray-right-up")
    /\ consecutiveShows = 2
    /\ event.popupBefore = "Visible"
    /\ ~popup.visible

\* C13: the computed position is the reference placement: candidate
\* (x - 236/2, y - 244 - 8), then the four passes in the order right clamp,
\* left clamp, flip below the trigger, bottom clamp; (1900, 10) on the
\* 1920x1080 display at (0, 0) gives top-left (1676, 18), right edge 1912.
RefRightClamp(tl, b) ==
    IF tl.x + 236 > (b.x + b.w) - 8 THEN [tl EXCEPT !.x = (b.x + b.w) - 8 - 236] ELSE tl
RefLeftClamp(tl, b) ==
    IF tl.x < b.x + 8 THEN [tl EXCEPT !.x = b.x + 8] ELSE tl
RefFlip(tl, b, py) ==
    IF tl.y < b.y + 8 THEN [tl EXCEPT !.y = py + 8] ELSE tl
RefBottomClamp(tl, b) ==
    IF tl.y + 244 > (b.y + b.h) - 8 THEN [tl EXCEPT !.y = (b.y + b.h) - 8 - 244] ELSE tl
RefPlace(px, py, b) ==
    RefBottomClamp(
        RefFlip(
            RefLeftClamp(
                RefRightClamp([x |-> px - 118, y |-> py - 244 - 8], b), b), b, py), b)

C13_PlacementIsReference ==
    locals.set
    => /\ [x |-> locals.menu_x, y |-> locals.menu_y]
            = RefPlace(event.x, event.y, locals.screen)
       /\ (event.x = 1900 /\ event.y = 10 /\ locals.screen = Monitor(0, 0, 1920, 1080))
          => /\ locals.menu_x = 1676
             /\ locals.menu_y = 18
             /\ locals.menu_x + 236 = 1912

C13_Witness ==
    /\ Finished("tray-right-up")
    /\ event.x = 1900
    /\ event.y = 10
    /\ locals.screen = Monitor(0, 0, 1920, 1080)
    /\ popup.x = 1676
    /\ popup.y = 18

\* C14: the resolved screen is the first reported monitor whose half-open
\* rectangle contains the trigger point, and the 1920x1080 screen at (0, 0)
\* when the query fails or no monitor contains the point.
MonitorsHit(q, x, y) ==
    { i \in 1..Len(q.monitors) :
        /\ q.monitors[i].x <= x
        /\ x < q.monitors[i].x + q.monitors[i].w
        /\ q.monitors[i].y <= y
        /\ y < q.monitors[i].y + q.monitors[i].h }

C14_FirstContainingMonitor ==
    locals.set
    => LET hits == MonitorsHit(event.query, event.x, event.y)
       IN  IF ~event.query.ok \/ hits = {}
           THEN locals.screen = [x |-> 0, y |-> 0, w |-> 1920, h |-> 1080]
           ELSE \E i \in hits :
                   /\ \A j \in hits : i <= j
                   /\ locals.screen = event.query.monitors[i]

C14_Witness ==
    /\ locals.set
    /\ event.query.ok
    /\ Cardinality(MonitorsHit(event.query, event.x, event.y)) = 2
    /\ locals.screen = event.query.monitors[1]
    /\ locals.screen /= event.query.monitors[2]

\* C15: navigate_main emits efgh:navigate only after show, unminimize and
\* set_focus of the main window; when it is done it has made exactly these
\* four calls, the emit carrying {path, replace: true}; the popup's
\* existence and visibility stay what they were when it was invoked.
C15_NavigateRevealsThenEmits ==
    event.kind = "navigate_main"
    => /\ PopupState(nPopup, popup) = event.popupBefore
       /\ Emits("main", "efgh:navigate") /= {}
          => /\ main.visible /\ ~main.minimized /\ focus = "main"
             /\ Calls("show", "main") /= {}
             /\ Calls("set_focus", "main") /= {}
       /\ todo = << >>
          => /\ Len(done) = 4
             /\ IsCall(done[1], "show", "main")
             /\ IsCall(done[2], "unminimize", "main")
             /\ IsCall(done[3], "set_focus", "main")
             /\ IsEmit(done[4], "main", "efgh:navigate")
             /\ done[4].payload = [NoPayload EXCEPT !.path = event.path, !.replace = TRUE]

C15_Witness ==
    /\ Finished("navigate_main")
    /\ event.path = "/settings"
    /\ event.popupBefore = "Visible"
    /\ popup.visible
    /\ Cardinality(Emits("main", "efgh:navigate")) = 1

\* C16: show_at called with the popup Visible makes one call, hide: the
\* popup ends Hidden, nothing is emitted, focus is not requested, and no
\* step of the handler changes the popup's size or position.
C16_ShowWhenVisibleOnlyHides ==
    /\ []((Finished("tray-right-up") /\ event.popupBefore = "Visible")
          => /\ PopupState(nPopup, popup) = "Hidden"
             /\ Len(done) = 1
             /\ IsCall(done[1], "hide", "tray-menu"))
    /\ []((event.kind = "tray-right-up" /\ event.popupBefore = "Visible")
          => /\ Emits("tray-menu", "tray-menu-position") = {}
             /\ Calls("set_focus", "tray-menu") = {})
    /\ [][(event.kind = "tray-right-up" /\ event.popupBefore = "Visible"
           /\ event' = event)
          => /\ popup'.x = popup.x
             /\ popup'.y = popup.y
             /\ popup'.w = popup.w
             /\ popup'.h = popup.h]_vars

C16_Witness ==
    /\ Finished("tray-right-up")
    /\ event.popupBefore = "Visible"
    /\ ~popup.visible
    /\ popup.x /= locals.menu_x

\* C17: a focus-loss event on the popup leaves it Hidden and in existence;
\* a focus-gain event on the popup and any focus event on the main window
\* change neither the existence nor the visibility of either window.
C17_FocusLossHidesPopup ==
    /\ [](event.kind = "focused"
          => /\ nPopup > 0 <=> event.popupBefore /= "Uninitialized"
             /\ (todo = << >> /\ event.win = "tray-menu" /\ ~event.flag)
                => PopupState(nPopup, popup) = "Hidden"
             /\ ~(event.win = "tray-menu" /\ ~event.flag)
                => PopupState(nPopup, popup) = event.popupBefore)
    /\ [][(event'.kind = "focused")
          => /\ main'.exists = main.exists
             /\ main'.visible = main.visible
             /\ nPopup' = nPopup]_vars

C17_Witness ==
    /\ Finished("focused")
    /\ event.win = "main"
    /\ ~event.flag
    /\ event.popupBefore = "Visible"
    /\ popup.visible

\* C18: a tray event other than a left or right button release runs no
\* call and emits nothing, and neither its dispatch nor any step taken
\* while it is the last event changes the existence, visibility, position,
\* size or focus of either window.
C18_OtherTrayEventsIgnored ==
    /\ [](event.kind = "tray-other" => (todo = << >> /\ done = << >>))
    /\ [][(event'.kind = "tray-other")
          => UNCHANGED <<nPopup, popup, main, focus>>]_vars

C18_Witness ==
    /\ Finished("tray-other")
    /\ event.popupBefore = "Visible"
    /\ popup.visible
    /\ focus = "tray-menu"
    /\ ~main.visible

\* C19: the popup goes from not visible to visible only in the show call
\* of a right-button release handler that found it not Visible; the window
\* the pre-warm builds is Hidden.
C19_VisibleOnlyByShowAt ==
    /\ [](Finished("setup") => PopupState(nPopup, popup) = "Hidden")
    /\ [][(~popup.visible /\ popup'.visible)
          => /\ event.kind = "tray-right-up"
             /\ event' = event
             /\ event.popupBefore /= "Visible"
             /\ todo /= << >>
             /\ IsCall(Cur, "show", "tray-menu")]_vars

C19_Witness ==
    /\ event.kind = "tray-right-up"
    /\ event.popupBefore = "Uninitialized"
    /\ popup.visible
    /\ Calls("show", "tray-menu") /= {}
    /\ Calls("set_focus", "tray-menu") = {}

\* C20: on every screen, also one smaller than 236 + 16 by 244 + 16, the
\* computed left edge is at or right of screen.left + 8 and the computed
\* bottom edge is at or above screen.bottom - 8.
C20_LeftAndBottomMarginsKept ==
    locals.set
    => /\ locals.menu_x >= locals.screen.x + 8
       /\ locals.menu_y + 244 <= locals.screen.y + locals.screen.h - 8

C20_Witness ==
    /\ locals.set
    /\ locals.screen.w < 236 + 16
    /\ locals.screen.h < 244 + 16
    /\ locals.menu_x = locals.screen.x + 8
    /\ locals.menu_x + 236 > locals.screen.x + locals.screen.w - 8
    /\ locals.menu_y < locals.screen.y + 8

====
